---- MODULE Spec2Model ----
(***************************************************************************)
(* A model of journal.py, the Daily Journal command-line program.          *)
(*                                                                         *)
(* State: the backing store journal.json (file), main()'s collection       *)
(* (entries), the position of the process among its input() prompts (pc),  *)
(* the line most recently read from standard input (line), what the last   *)
(* step printed (out), the values handed back to main by a call that       *)
(* returned in the last step (ret), and the locals of a running add_entry: *)
(* the timestamp it captured (date) and the mood it accepted (mood); and   *)
(* the number of save_entries calls made so far (saves).                   *)
(*                                                                         *)
(* Text is a sequence of one-character strings.  Python values are tagged  *)
(* records [t, v].  journal.json is a sequence of characters, written by   *)
(* Dump (json.dump with indent=2) and read by Loads (json.load).           *)
(***************************************************************************)
EXTENDS Integers, Sequences, FiniteSets, TLC

VARIABLES file, entries, pc, line, out, ret, date, mood, saves

vars == <<file, entries, pc, line, out, ret, date, mood, saves>>

(***************************************************************************)
(* Bounds of the model.                                                    *)
(***************************************************************************)
\* add_entry is not offered once the collection holds this many entries
MaxEntries == 2

(***************************************************************************)
(* Characters.                                                             *)
(***************************************************************************)
QUOTE == "\""
BACKSLASH == "\\"
NEWLINE == "\n"
SPACE == " "
\* one character outside ASCII (U+00E9), which json.dump writes as \u00e9
EACUTE == "U+00E9"
\* any other character a \uXXXX escape decodes to
OTHERCHAR == "U+????"

Whitespace == {" ", "\n", "\t", "\r"}

Digits == <<"0", "1", "2", "3", "4", "5", "6", "7", "8", "9">>

DigitChars == {Digits[i] : i \in 1..10}

HexChars == DigitChars \cup {"a", "b", "c", "d", "e", "f", "A", "B", "C", "D", "E", "F"}

DigitValue(c) == (CHOOSE i \in 1..10 : Digits[i] = c) - 1

\* str.lower() on the letters that occur in upper case in the inputs
LowerChar(c) ==
    CASE c = "H" -> "h"
      [] c = "I" -> "i"
      [] c = "S" -> "s"
      [] OTHER -> c

Lower(s) == [i \in 1..Len(s) |-> LowerChar(s[i])]

RECURSIVE LStrip(_)
LStrip(s) ==
    IF s # <<>> /\ Head(s) \in Whitespace THEN LStrip(Tail(s)) ELSE s

RECURSIVE RStrip(_)
RStrip(s) ==
    IF s # <<>> /\ s[Len(s)] \in Whitespace
    THEN RStrip(SubSeq(s, 1, Len(s) - 1))
    ELSE s

\* Strip without the strip: the line as typed
Strip_Missing(s) == s

\* str.strip()
Strip(s) == RStrip(LStrip(s))

\* the substring test "needle in hay"
Contains(hay, needle) ==
    \E i \in 0..(Len(hay) - Len(needle)) :
        \A j \in 1..Len(needle) : hay[i + j] = needle[j]

(***************************************************************************)
(* Python values.                                                          *)
(***************************************************************************)
PyStr(s) == [t |-> "str", v |-> s]
PyInt(n) == [t |-> "int", v |-> n]
PyList(xs) == [t |-> "list", v |-> xs]
\* a dict keeps its items in insertion order: a sequence of <<key, value>>
PyDict(kvs) == [t |-> "dict", v |-> kvs]
PyBool(b) == [t |-> "bool", v |-> b]

IsStr(x) == x.t = "str"
IsList(x) == x.t = "list"
IsDict(x) == x.t = "dict"

K_DATE == <<"d", "a", "t", "e">>
K_MOOD == <<"m", "o", "o", "d">>
K_TEXT == <<"t", "e", "x", "t">>

HAPPY == <<"h", "a", "p", "p", "y">>
NEUTRAL == <<"n", "e", "u", "t", "r", "a", "l">>
SAD == <<"s", "a", "d">>

VALID_MOODS == <<HAPPY, NEUTRAL, SAD>>

ValidMoodSet == {VALID_MOODS[i] : i \in 1..Len(VALID_MOODS)}

\* IsValidMood without the test: any mood passes
IsValidMood_Any(m) == TRUE

\* "mood in VALID_MOODS", the test of the two mood prompts
IsValidMood(m) == m \in ValidMoodSet

\* the dict literal of add_entry
Entry(d, m, x) ==
    PyDict(<< <<K_DATE, PyStr(d)>>, <<K_MOOD, PyStr(m)>>, <<K_TEXT, PyStr(x)>> >>)

HasKey(x, k) == IsDict(x) /\ \E i \in 1..Len(x.v) : x.v[i][1] = k

\* x[k] for a dict x that has the key k
GetItem(x, k) == x.v[CHOOSE i \in 1..Len(x.v) : x.v[i][1] = k][2]

\* dict assignment d[k] = val on the item sequence kvs: a key already present
\* keeps its place and takes the new value
SetItem(kvs, k, val) ==
    IF \E i \in 1..Len(kvs) : kvs[i][1] = k
    THEN [i \in 1..Len(kvs) |-> IF kvs[i][1] = k THEN <<k, val>> ELSE kvs[i]]
    ELSE Append(kvs, <<k, val>>)

\* bool(x): "if not entries"
Truthy(x) == IF x.t = "int" THEN x.v # 0 ELSE x.v # <<>>

\* whether len(x) is defined
HasLen(x) == x.t \in {"list", "dict", "str"}

\* what "for e in x" yields: the items of a list, the keys of a dict, the
\* characters of a str
Iter(x) ==
    CASE x.t = "list" -> x.v
      [] x.t = "dict" -> [i \in 1..Len(x.v) |-> PyStr(x.v[i][1])]
      [] x.t = "str" -> [i \in 1..Len(x.v) |-> PyStr(<<x.v[i]>>)]
      [] OTHER -> <<>>

\* whether x can be a dict key or be looked up in a dict
Hashable(x) == x.t \in {"str", "int"}

(***************************************************************************)
(* json.dump(entries, f, indent=2)                                         *)
(***************************************************************************)
RECURSIVE Concat(_)
Concat(ss) == IF ss = <<>> THEN <<>> ELSE Head(ss) \o Concat(Tail(ss))

RECURSIVE Indent(_)
Indent(n) == IF n = 0 THEN <<>> ELSE <<SPACE, SPACE>> \o Indent(n - 1)

\* EscapeChar with the quote left as it is
EscapeChar_QuoteUnescaped(c) ==
    CASE c = BACKSLASH -> <<BACKSLASH, BACKSLASH>>
      [] c = NEWLINE -> <<BACKSLASH, "n">>
      [] c = EACUTE -> <<BACKSLASH, "u", "0", "0", "e", "9">>
      [] OTHER -> <<c>>

\* the encoder's escape of one character (ensure_ascii)
EscapeChar(c) ==
    CASE c = QUOTE -> <<BACKSLASH, QUOTE>>
      [] c = BACKSLASH -> <<BACKSLASH, BACKSLASH>>
      [] c = NEWLINE -> <<BACKSLASH, "n">>
      [] c = "\t" -> <<BACKSLASH, "t">>
      [] c = "\r" -> <<BACKSLASH, "r">>
      [] c = EACUTE -> <<BACKSLASH, "u", "0", "0", "e", "9">>
      [] c = OTHERCHAR -> <<BACKSLASH, "u", "f", "f", "f", "d">>
      [] OTHER -> <<c>>

EncodeStr(s) ==
    <<QUOTE>> \o Concat([i \in 1..Len(s) |-> EscapeChar(s[i])]) \o <<QUOTE>>

RECURSIVE EncodeInt(_)
EncodeInt(n) ==
    IF n < 10 THEN <<Digits[n + 1]>>
    ELSE EncodeInt(n \div 10) \o <<Digits[(n % 10) + 1]>>

\* items joined by "," newline indent
RECURSIVE JoinItems(_, _)
JoinItems(items, level) ==
    IF Len(items) = 1 THEN Head(items)
    ELSE Head(items) \o <<",", NEWLINE>> \o Indent(level)
         \o JoinItems(Tail(items), level)

RECURSIVE DumpAt(_, _)
DumpAt(x, level) ==
    CASE x.t = "str" -> EncodeStr(x.v)
      [] x.t = "int" -> EncodeInt(x.v)
      [] x.t = "list" ->
            IF x.v = <<>> THEN <<"[", "]">>
            ELSE <<"[", NEWLINE>> \o Indent(level + 1)
                 \o JoinItems([i \in 1..Len(x.v) |-> DumpAt(x.v[i], level + 1)],
                              level + 1)
                 \o <<NEWLINE>> \o Indent(level) \o <<"]">>
      [] x.t = "dict" ->
            IF x.v = <<>> THEN <<"{", "}">>
            ELSE <<"{", NEWLINE>> \o Indent(level + 1)
                 \o JoinItems([i \in 1..Len(x.v) |->
                                  EncodeStr(x.v[i][1]) \o <<":", SPACE>>
                                  \o DumpAt(x.v[i][2], level + 1)],
                              level + 1)
                 \o <<NEWLINE>> \o Indent(level) \o <<"}">>

Dump(x) == DumpAt(x, 0)

(***************************************************************************)
(* json.load(f): arrays, objects, strings and non-negative integers.       *)
(* A parse result is [ok, val, pos]: pos is the index after the value.     *)
(***************************************************************************)
Fail(i) == [ok |-> FALSE, val |-> PyInt(0), pos |-> i]

Ok(x, i) == [ok |-> TRUE, val |-> x, pos |-> i]

RECURSIVE SkipWs(_, _)
SkipWs(d, i) ==
    IF i <= Len(d) /\ d[i] \in Whitespace THEN SkipWs(d, i + 1) ELSE i

\* the character a backslash escape stands for, "" when the escape is invalid
Unescape(c) ==
    CASE c = QUOTE -> QUOTE
      [] c = BACKSLASH -> BACKSLASH
      [] c = "/" -> "/"
      [] c = "n" -> NEWLINE
      [] c = "t" -> "\t"
      [] c = "r" -> "\r"
      [] OTHER -> ""

\* the character of \uXXXX
UnescapeHex(h) ==
    IF Lower(h) = <<"0", "0", "e", "9">> THEN EACUTE ELSE OTHERCHAR

\* the body of a string, from index i (after the opening quote)
RECURSIVE ScanString(_, _, _)
ScanString(d, i, acc) ==
    IF i > Len(d) THEN Fail(i)
    ELSE IF d[i] = QUOTE THEN Ok(PyStr(acc), i + 1)
    ELSE IF d[i] \in {NEWLINE, "\t", "\r"} THEN Fail(i)
    ELSE IF d[i] # BACKSLASH THEN ScanString(d, i + 1, Append(acc, d[i]))
    ELSE IF i + 1 > Len(d) THEN Fail(i)
    ELSE IF d[i + 1] = "u"
         THEN IF i + 5 <= Len(d) /\ \A j \in 2..5 : d[i + j] \in HexChars
              THEN ScanString(d, i + 6,
                              Append(acc, UnescapeHex(SubSeq(d, i + 2, i + 5))))
              ELSE Fail(i)
    ELSE IF Unescape(d[i + 1]) = "" THEN Fail(i)
    ELSE ScanString(d, i + 2, Append(acc, Unescape(d[i + 1])))

RECURSIVE ScanDigits(_, _, _)
ScanDigits(d, i, n) ==
    IF i <= Len(d) /\ d[i] \in DigitChars
    THEN ScanDigits(d, i + 1, 10 * n + DigitValue(d[i]))
    ELSE Ok(PyInt(n), i)

RECURSIVE ParseValue(_, _)
RECURSIVE ParseElems(_, _, _)
RECURSIVE ParseMembers(_, _, _)

\* the elements of an array, from the first element at index i
ParseElems(d, i, acc) ==
    LET r == ParseValue(d, i)
        j == SkipWs(d, r.pos)
    IN  IF ~r.ok \/ j > Len(d) THEN Fail(i)
        ELSE IF d[j] = "]" THEN Ok(PyList(Append(acc, r.val)), j + 1)
        ELSE IF d[j] = "," THEN ParseElems(d, SkipWs(d, j + 1), Append(acc, r.val))
        ELSE Fail(j)

\* the members of an object, from the first key at index i
ParseMembers(d, i, acc) ==
    IF i > Len(d) \/ d[i] # QUOTE THEN Fail(i)
    ELSE
    LET k == ScanString(d, i + 1, <<>>)
        c == SkipWs(d, k.pos)
    IN  IF ~k.ok \/ c > Len(d) \/ d[c] # ":" THEN Fail(i)
        ELSE
        LET r == ParseValue(d, SkipWs(d, c + 1))
            j == SkipWs(d, r.pos)
            kvs == SetItem(acc, k.val.v, r.val)
        IN  IF ~r.ok \/ j > Len(d) THEN Fail(i)
            ELSE IF d[j] = "}" THEN Ok(PyDict(kvs), j + 1)
            ELSE IF d[j] = "," THEN ParseMembers(d, SkipWs(d, j + 1), kvs)
            ELSE Fail(j)

ParseValue(d, i) ==
    IF i > Len(d) THEN Fail(i)
    ELSE IF d[i] = QUOTE THEN ScanString(d, i + 1, <<>>)
    ELSE IF d[i] = "0" THEN Ok(PyInt(0), i + 1)
    ELSE IF d[i] \in DigitChars THEN ScanDigits(d, i, 0)
    ELSE IF d[i] = "["
         THEN LET j == SkipWs(d, i + 1)
              IN  IF j <= Len(d) /\ d[j] = "]" THEN Ok(PyList(<<>>), j + 1)
                  ELSE ParseElems(d, j, <<>>)
    ELSE IF d[i] = "{"
         THEN LET j == SkipWs(d, i + 1)
              IN  IF j <= Len(d) /\ d[j] = "}" THEN Ok(PyDict(<<>>), j + 1)
                  ELSE ParseMembers(d, j, <<>>)
    ELSE Fail(i)

\* json.loads: one value, white space around it, nothing after it; ok = FALSE
\* is JSONDecodeError
Loads(d) ==
    LET r == ParseValue(d, SkipWs(d, 1))
    IN  IF r.ok /\ SkipWs(d, r.pos) > Len(d) THEN r ELSE Fail(1)

(***************************************************************************)
(* The backing store and the Entry Store functions.                        *)
(***************************************************************************)
NoFile == [exists |-> FALSE, data |-> <<>>]

FileOf(d) == [exists |-> TRUE, data |-> d]

EmptyList == PyList(<<>>)

MSG_CORRUPT == "Warning: Journal file is corrupted. Starting fresh."
MSG_READ_ERROR == "Error reading journal"
MSG_SAVE_ERROR == "Error saving journal"
MSG_SAVED == "Saved!"
MSG_EMPTY_TEXT == "Entry is empty - nothing saved."
MSG_TRACEBACK == "Traceback (most recent call last)"

\* how the operating system answers the open() of load_entries
ReadOutcomes == {"ok", "oserror"}

\* load_entries(): the value returned and the diagnostic printed
load_entries(f, io) ==
    IF ~f.exists THEN [val |-> EmptyList, msg |-> ""]
    ELSE IF io = "oserror" THEN [val |-> EmptyList, msg |-> MSG_READ_ERROR]
    ELSE IF ~Loads(f.data).ok THEN [val |-> EmptyList, msg |-> MSG_CORRUPT]
    ELSE [val |-> Loads(f.data).val, msg |-> ""]

\* how the operating system answers the open() and the writes of
\* save_entries: all written, open refused, or a write refused after half
\* of the document reached the file that open(.., "w") had emptied
SaveOutcomes(x) ==
    {[kind |-> "ok", cut |-> 0], [kind |-> "open", cut |-> 0],
     [kind |-> "write", cut |-> Len(Dump(x)) \div 2]}

\* save_entries with the file opened in mode "a": the document is written
\* after what the store held
save_entries_AppendMode(f, x, o) ==
    CASE o.kind = "ok" -> [file |-> FileOf(f.data \o Dump(x)), ok |-> TRUE]
      [] o.kind = "open" -> [file |-> f, ok |-> FALSE]
      [] OTHER -> [file |-> FileOf(f.data \o SubSeq(Dump(x), 1, o.cut)), ok |-> FALSE]

\* save_entries(entries): the store afterwards and the flag returned
save_entries(f, x, o) ==
    CASE o.kind = "ok" -> [file |-> FileOf(Dump(x)), ok |-> TRUE]
      [] o.kind = "open" -> [file |-> f, ok |-> FALSE]
      [] OTHER -> [file |-> FileOf(SubSeq(Dump(x), 1, o.cut)), ok |-> FALSE]

(***************************************************************************)
(* Entry Query and Aggregation: the computations of the menu functions.    *)
(***************************************************************************)
\* display_entry(entry, index) returns without raising
Displayable(e) ==
    /\ HasKey(e, K_MOOD)
    /\ Hashable(GetItem(e, K_MOOD))
    /\ HasKey(e, K_DATE)
    /\ HasKey(e, K_TEXT)

\* the entries displayed before display_entry raises (all of them if none does)
RECURSIVE DisplayedPrefix(_)
DisplayedPrefix(es) ==
    IF es = <<>> \/ ~Displayable(Head(es)) THEN <<>>
    ELSE <<Head(es)>> \o DisplayedPrefix(Tail(es))

\* FilterByMood building its list from the front: the matches in reverse
RECURSIVE FilterByMood_Reversed(_, _)
FilterByMood_Reversed(es, m) ==
    IF es = <<>> THEN <<>>
    ELSE IF GetItem(Head(es), K_MOOD) = PyStr(m)
         THEN FilterByMood_Reversed(Tail(es), m) \o <<Head(es)>>
         ELSE FilterByMood_Reversed(Tail(es), m)

\* [e for e in entries if e["mood"] == mood]
RECURSIVE FilterByMood(_, _)
FilterByMood(es, m) ==
    IF es = <<>> THEN <<>>
    ELSE IF GetItem(Head(es), K_MOOD) = PyStr(m)
         THEN <<Head(es)>> \o FilterByMood(Tail(es), m)
         ELSE FilterByMood(Tail(es), m)

\* [e for e in entries if keyword_lower in e["text"].lower()]
RECURSIVE FilterByKeyword(_, _)
FilterByKeyword(es, kw) ==
    IF es = <<>> THEN <<>>
    ELSE IF Contains(Lower(GetItem(Head(es), K_TEXT).v), kw)
         THEN <<Head(es)>> \o FilterByKeyword(Tail(es), kw)
         ELSE FilterByKeyword(Tail(es), kw)

\* Tally with "counts[mood] = 1" for "counts[mood] += 1"
RECURSIVE Tally_Assigning(_, _)
Tally_Assigning(es, counts) ==
    IF es = <<>> THEN counts
    ELSE LET m == GetItem(Head(es), K_MOOD)
         IN  IF IsStr(m) /\ m.v \in DOMAIN counts
             THEN Tally_Assigning(Tail(es), [counts EXCEPT ![m.v] = 1])
             ELSE Tally_Assigning(Tail(es), counts)

\* the tally loop of mood_summary: counts[mood] += 1 if mood in counts
RECURSIVE Tally(_, _)
Tally(es, counts) ==
    IF es = <<>> THEN counts
    ELSE LET m == GetItem(Head(es), K_MOOD)
         IN  IF IsStr(m) /\ m.v \in DOMAIN counts
             THEN Tally(Tail(es), [counts EXCEPT ![m.v] = @ + 1])
             ELSE Tally(Tail(es), counts)

\* MaxScan replacing the best key also on an equal count: the last maximum
RECURSIVE MaxScan_LastMaximum(_, _, _)
MaxScan_LastMaximum(counts, i, best) ==
    IF i > Len(VALID_MOODS) THEN best
    ELSE IF counts[VALID_MOODS[i]] >= counts[best]
         THEN MaxScan_LastMaximum(counts, i + 1, VALID_MOODS[i])
         ELSE MaxScan_LastMaximum(counts, i + 1, best)

\* max(counts, key=lambda m: counts[m]): the keys in insertion order, a later
\* key replacing the best one only when its count is greater
RECURSIVE MaxScan(_, _, _)
MaxScan(counts, i, best) ==
    IF i > Len(VALID_MOODS) THEN best
    ELSE IF counts[VALID_MOODS[i]] > counts[best]
         THEN MaxScan(counts, i + 1, VALID_MOODS[i])
         ELSE MaxScan(counts, i + 1, best)

TopMood(counts) == MaxScan(counts, 2, VALID_MOODS[1])

\* the number "{percent:.0f}" prints for count / total * 100: the nearest
\* integer, a half going to the even one
Percent(count, total) ==
    IF total > 0
    THEN LET q == (count * 100) \div total
             r == (count * 100) % total
         IN  IF 2 * r < total THEN q
             ELSE IF 2 * r > total THEN q + 1
             ELSE IF q % 2 = 0 THEN q ELSE q + 1
    ELSE 0

\* what mood_summary reports for the iterated entries es
Summary(es) ==
    LET counts == Tally(es, [m \in ValidMoodSet |-> 0])
        total == Len(es)
    IN  [counts |-> counts,
         total |-> total,
         percent |-> [m \in ValidMoodSet |-> Percent(counts[m], total)],
         top |-> TopMood(counts)]

(***************************************************************************)
(* Standard input and output.                                              *)
(***************************************************************************)
Typed(s) == [kind |-> "line", s |-> s]
EndOfInput == [kind |-> "eof", s |-> <<>>]
Interrupt == [kind |-> "interrupt", s |-> <<>>]

NoInput == [kind |-> "none", s |-> <<>>]

\* input() raises EOFError or KeyboardInterrupt
Raises(inp) == inp.kind \in {"eof", "interrupt"}

\* what is typed at "Choose an option (1-6): "
MenuInputs ==
    {Typed(<<"1">>), Typed(<<"2">>), Typed(<<SPACE, "3", SPACE>>), Typed(<<"4">>),
     Typed(<<"5">>), Typed(<<"6">>), Typed(<<"7">>), Typed(<<>>),
     EndOfInput, Interrupt}

\* what is typed at a "Mood (happy/neutral/sad): " prompt
MoodInputs ==
    {Typed(HAPPY), Typed(NEUTRAL), Typed(<<SPACE, "S", "a", "d", SPACE>>),
     Typed(<<"a", "n", "g", "r", "y">>), EndOfInput, Interrupt}

\* what is typed at "Write your entry:"
TextInputs ==
    {Typed(<<>>), Typed(<<SPACE, SPACE>>), Typed(<<SPACE, "H", "i", SPACE>>),
     Typed(<<"a", QUOTE, BACKSLASH, EACUTE>>), EndOfInput, Interrupt}

\* what is typed at "Search keyword: "
KeywordInputs ==
    {Typed(<<>>), Typed(<<"h", "I">>), Typed(<<"z">>), EndOfInput, Interrupt}

\* the minute datetime.now() falls in
ClockMinutes == {5, 17}

\* datetime.now().strftime("%Y-%m-%d %H:%M") at minute m of one hour
Strftime(m) ==
    <<"2", "0", "2", "6", "-", "1", "1", "-", "0", "4", SPACE, "0", "9", ":",
      Digits[(m \div 10) + 1], Digits[(m % 10) + 1]>>

Printed(msg) == [msg |-> msg, shown |-> <<>>, report |-> <<>>]

Listing(msg, es) == [msg |-> msg, shown |-> es, report |-> <<>>]

Traceback(es) == [msg |-> MSG_TRACEBACK, shown |-> es, report |-> <<>>]

(***************************************************************************)
(* The stores journal.json may hold when the program starts.               *)
(***************************************************************************)
HI == <<"H", "i">>

\* the five entries of moods happy, sad, happy, neutral, happy
FiveEntries ==
    PyList(<<Entry(Strftime(1), HAPPY, HI), Entry(Strftime(2), SAD, HI),
             Entry(Strftime(3), HAPPY, <<"a">>), Entry(Strftime(4), NEUTRAL, HI),
             Entry(Strftime(5), HAPPY, <<"b">>)>>)

\* counts happy 2, neutral 2, sad 0, a neutral entry first
TiedEntries ==
    PyList(<<Entry(Strftime(1), NEUTRAL, HI), Entry(Strftime(2), HAPPY, HI),
             Entry(Strftime(3), NEUTRAL, HI), Entry(Strftime(4), HAPPY, HI)>>)

\* records of the right shape with a mood outside the set and an empty text
ForeignEntries ==
    PyList(<<Entry(Strftime(1), <<"a", "n", "g", "r", "y">>, HI),
             Entry(Strftime(2), HAPPY, <<>>)>>)

\* a record without a mood
ShortRecord == PyList(<<PyDict(<< <<K_TEXT, PyStr(HI)>> >>)>>)

InitialStores ==
    {NoFile,
     FileOf(Dump(EmptyList)),
     FileOf(Dump(FiveEntries)),
     FileOf(Dump(TiedEntries)),
     FileOf(Dump(ForeignEntries)),
     FileOf(Dump(ShortRecord)),
     FileOf(Dump(PyList(<<PyInt(7)>>))),
     FileOf(Dump(PyInt(7))),
     FileOf(Dump(PyDict(<<>>))),
     FileOf(Dump(PyStr(HI))),
     FileOf(SubSeq(Dump(TiedEntries), 1, Len(Dump(TiedEntries)) \div 2))}

(***************************************************************************)
(* The program: main() and the functions it dispatches to, one action per  *)
(* stretch of code between two input() calls.                              *)
(***************************************************************************)
Init ==
    /\ file \in InitialStores
    /\ entries = EmptyList
    /\ pc = "start"
    /\ line = NoInput
    /\ out = Printed("")
    /\ ret = <<>>
    /\ date = <<>>
    /\ mood = <<>>
    /\ saves = 0

\* Main_Load with a load that, finding the store corrupted, starts it afresh
\* as an empty collection
Main_Load_StartingFresh ==
    /\ pc = "start"
    /\ \E io \in ReadOutcomes :
         LET r == load_entries(file, io)
         IN  /\ entries' = r.val
             /\ ret' = <<r.val>>
             /\ file' = IF r.msg = MSG_CORRUPT THEN FileOf(Dump(EmptyList)) ELSE file
             /\ IF HasLen(r.val)
                THEN pc' = "menu" /\ out' = Printed(r.msg)
                ELSE pc' = "crashed" /\ out' = Traceback(<<>>)
    /\ UNCHANGED <<line, date, mood, saves>>

\* main(), up to the first menu: entries = load_entries(), then the count line
Main_Load ==
    /\ pc = "start"
    /\ \E io \in ReadOutcomes :
         LET r == load_entries(file, io)
         IN  /\ entries' = r.val
             /\ ret' = <<r.val>>
             /\ IF HasLen(r.val)
                THEN pc' = "menu" /\ out' = Printed(r.msg)
                ELSE pc' = "crashed" /\ out' = Traceback(<<>>)
    /\ UNCHANGED <<file, line, date, mood, saves>>

\* the menu prompt answered by 6, by end of input or by an interrupt
Main_Quit ==
    /\ pc = "menu"
    /\ \E inp \in MenuInputs :
         /\ Raises(inp) \/ Strip(inp.s) = <<"6">>
         /\ line' = inp
    /\ pc' = "done"
    /\ out' = Printed("Goodbye!")
    /\ ret' = <<>>
    /\ UNCHANGED <<file, entries, date, mood, saves>>

\* the menu prompt answered by anything but 1..6
Main_Invalid ==
    /\ pc = "menu"
    /\ \E inp \in MenuInputs :
         /\ ~Raises(inp)
         /\ Strip(inp.s) \notin {<<"1">>, <<"2">>, <<"3">>, <<"4">>, <<"5">>, <<"6">>}
         /\ line' = inp
    /\ out' = Printed("Invalid choice")
    /\ ret' = <<>>
    /\ UNCHANGED <<file, entries, pc, date, mood, saves>>

\* the menu prompt answered by c
Chosen(c) ==
    /\ pc = "menu"
    /\ \E inp \in MenuInputs :
         /\ ~Raises(inp)
         /\ Strip(inp.s) = <<c>>
         /\ line' = inp

\* choice 1: add_entry up to its mood prompt
Add_Begin ==
    /\ Chosen("1")
    /\ IsList(entries) => Len(entries.v) < MaxEntries
    /\ \E m \in ClockMinutes : date' = Strftime(m)
    /\ pc' = "add_mood"
    /\ out' = Printed("--- New Entry ---")
    /\ ret' = <<>>
    /\ UNCHANGED <<file, entries, mood, saves>>

\* the mood prompt of add_entry
Add_Mood ==
    /\ pc = "add_mood"
    /\ \E inp \in MoodInputs :
         /\ line' = inp
         /\ IF Raises(inp)
            THEN /\ pc' = "crashed"
                 /\ out' = Traceback(<<>>)
                 /\ date' = <<>>
                 /\ mood' = <<>>
            ELSE IF IsValidMood(Lower(Strip(inp.s)))
            THEN /\ mood' = Lower(Strip(inp.s))
                 /\ pc' = "add_text"
                 /\ out' = Printed("")
                 /\ date' = date
            ELSE /\ out' = Printed("Please enter one of")
                 /\ UNCHANGED <<pc, mood, date>>
    /\ ret' = <<>>
    /\ UNCHANGED <<file, entries, saves>>

\* the text prompt of add_entry and the rest of the function
Add_Text ==
    /\ pc = "add_text"
    /\ \E inp \in TextInputs :
         /\ line' = inp
         /\ IF Raises(inp)
            THEN /\ pc' = "crashed"
                 /\ out' = Traceback(<<>>)
                 /\ ret' = <<>>
                 /\ UNCHANGED <<file, entries, saves>>
            ELSE IF Strip(inp.s) = <<>>
            THEN /\ pc' = "menu"
                 /\ out' = Printed(MSG_EMPTY_TEXT)
                 /\ ret' = <<entries>>
                 /\ UNCHANGED <<file, entries, saves>>
            ELSE IF ~IsList(entries)
            THEN /\ pc' = "crashed"
                 /\ out' = Traceback(<<>>)
                 /\ ret' = <<>>
                 /\ UNCHANGED <<file, entries, saves>>
            ELSE \E o \in SaveOutcomes(PyList(Append(entries.v,
                                          Entry(date, mood, Strip(inp.s))))) :
                   LET new == PyList(Append(entries.v, Entry(date, mood, Strip(inp.s))))
                       s == save_entries(file, new, o)
                   IN  /\ entries' = new
                       /\ file' = s.file
                       /\ saves' = saves + 1
                       /\ out' = Printed(IF s.ok THEN MSG_SAVED ELSE MSG_SAVE_ERROR)
                       /\ ret' = <<new>>
                       /\ pc' = "menu"
    /\ date' = <<>>
    /\ mood' = <<>>

\* choice 2: view_all_entries
ViewAll ==
    /\ Chosen("2")
    /\ IF ~Truthy(entries)
       THEN pc' = pc /\ out' = Printed("No entries yet. Start writing!")
       ELSE IF \A i \in 1..Len(Iter(entries)) : Displayable(Iter(entries)[i])
       THEN pc' = pc /\ out' = Listing("All Entries", Iter(entries))
       ELSE pc' = "crashed" /\ out' = Traceback(DisplayedPrefix(Iter(entries)))
    /\ ret' = <<>>
    /\ UNCHANGED <<file, entries, date, mood, saves>>

\* choice 3: view_by_mood up to its mood prompt
ViewByMood_Begin ==
    /\ Chosen("3")
    /\ IF ~Truthy(entries)
       THEN pc' = pc /\ out' = Printed("No entries yet.") /\ ret' = <<>>
       ELSE pc' = "view_mood" /\ out' = Printed("") /\ ret' = <<>>
    /\ UNCHANGED <<file, entries, date, mood, saves>>

\* the mood prompt of view_by_mood and the rest of the function
ViewByMood_Mood ==
    /\ pc = "view_mood"
    /\ \E inp \in MoodInputs :
         /\ line' = inp
         /\ IF Raises(inp)
            THEN pc' = "crashed" /\ out' = Traceback(<<>>) /\ ret' = <<>>
            ELSE IF ~IsValidMood(Lower(Strip(inp.s)))
            THEN out' = Printed("Please enter one of") /\ pc' = pc /\ ret' = <<>>
            ELSE IF \E i \in 1..Len(Iter(entries)) : ~HasKey(Iter(entries)[i], K_MOOD)
            THEN pc' = "crashed" /\ out' = Traceback(<<>>) /\ ret' = <<>>
            ELSE LET filtered == FilterByMood(Iter(entries), Lower(Strip(inp.s)))
                 IN  IF filtered = <<>>
                     THEN /\ pc' = "menu"
                          /\ out' = Printed("No entries found.")
                          /\ ret' = <<>>
                     ELSE IF \A i \in 1..Len(filtered) : Displayable(filtered[i])
                     THEN /\ pc' = "menu"
                          /\ out' = Listing("Entries found", filtered)
                          /\ ret' = <<>>
                     ELSE /\ pc' = "crashed"
                          /\ out' = Traceback(DisplayedPrefix(filtered))
                          /\ ret' = <<>>
    /\ UNCHANGED <<file, entries, date, mood, saves>>

\* choice 4: mood_summary
MoodSummary ==
    /\ Chosen("4")
    /\ IF ~Truthy(entries)
       THEN pc' = pc /\ out' = Printed("No entries yet.") /\ ret' = <<>>
       ELSE IF \A i \in 1..Len(Iter(entries)) :
                  /\ HasKey(Iter(entries)[i], K_MOOD)
                  /\ Hashable(GetItem(Iter(entries)[i], K_MOOD))
       THEN /\ pc' = pc
            /\ out' = [msg |-> "Mood Summary", shown |-> <<>>,
                       report |-> <<Summary(Iter(entries))>>]
            /\ ret' = <<>>
       ELSE pc' = "crashed" /\ out' = Traceback(<<>>) /\ ret' = <<>>
    /\ UNCHANGED <<file, entries, date, mood, saves>>

\* choice 5: search_entries up to its keyword prompt
Search_Begin ==
    /\ Chosen("5")
    /\ IF ~Truthy(entries)
       THEN pc' = pc /\ out' = Printed("No entries yet.") /\ ret' = <<>>
       ELSE pc' = "search_kw" /\ out' = Printed("") /\ ret' = <<>>
    /\ UNCHANGED <<file, entries, date, mood, saves>>

\* the keyword prompt of search_entries and the rest of the function
Search_Keyword ==
    /\ pc = "search_kw"
    /\ \E inp \in KeywordInputs :
         /\ line' = inp
         /\ IF Raises(inp)
            THEN pc' = "crashed" /\ out' = Traceback(<<>>) /\ ret' = <<>>
            ELSE IF Strip(inp.s) = <<>>
            THEN pc' = "menu" /\ out' = Printed("No keyword entered.") /\ ret' = <<>>
            ELSE IF \E i \in 1..Len(Iter(entries)) :
                       \/ ~HasKey(Iter(entries)[i], K_TEXT)
                       \/ ~IsStr(GetItem(Iter(entries)[i], K_TEXT))
            THEN pc' = "crashed" /\ out' = Traceback(<<>>) /\ ret' = <<>>
            ELSE LET matches == FilterByKeyword(Iter(entries), Lower(Strip(inp.s)))
                 IN  IF matches = <<>>
                     THEN /\ pc' = "menu"
                          /\ out' = Printed("No entries found containing")
                          /\ ret' = <<>>
                     ELSE IF \A i \in 1..Len(matches) : Displayable(matches[i])
                     THEN /\ pc' = "menu"
                          /\ out' = Listing("Search", matches)
                          /\ ret' = <<>>
                     ELSE /\ pc' = "crashed"
                          /\ out' = Traceback(DisplayedPrefix(matches))
                          /\ ret' = <<>>
    /\ UNCHANGED <<file, entries, date, mood, saves>>

Next ==
    \/ Main_Load
    \/ Main_Quit
    \/ Main_Invalid
    \/ Add_Begin
    \/ Add_Mood
    \/ Add_Text
    \/ ViewAll
    \/ ViewByMood_Begin
    \/ ViewByMood_Mood
    \/ MoodSummary
    \/ Search_Begin
    \/ Search_Keyword

Spec == Init /\ [][Next]_vars

(***************************************************************************)
(* save_entries followed by load_entries, on the valid collections.        *)
(***************************************************************************)
\* the texts add_entry can store
Texts == {Strip(inp.s) : inp \in {i \in TextInputs : ~Raises(i)}} \ {<<>>}

ValidEntries ==
    {Entry(Strftime(m), md, x) : m \in ClockMinutes, md \in ValidMoodSet, x \in Texts}

\* the valid collections of at most MaxEntries entries
ValidCollections ==
    UNION {{PyList(c) : c \in [1..n -> ValidEntries]} : n \in 0..MaxEntries}

InitRT ==
    /\ entries \in ValidCollections
    /\ file \in {NoFile, FileOf(Dump(TiedEntries))}
    /\ pc = "rt_save"
    /\ line = NoInput
    /\ out = Printed("")
    /\ ret = <<>>
    /\ date = <<>>
    /\ mood = <<>>
    /\ saves = 0

\* save_entries(entries)
RT_Save ==
    /\ pc = "rt_save"
    /\ \E o \in SaveOutcomes(entries) :
         LET s == save_entries(file, entries, o)
         IN  /\ file' = s.file
             /\ ret' = <<PyBool(s.ok)>>
             /\ out' = Printed(IF s.ok THEN "" ELSE MSG_SAVE_ERROR)
    /\ saves' = saves + 1
    /\ pc' = "rt_load"
    /\ UNCHANGED <<entries, line, date, mood>>

\* load_entries(), its value kept beside the flag save_entries returned
RT_Load ==
    /\ pc = "rt_load"
    /\ \E io \in ReadOutcomes :
         LET r == load_entries(file, io)
         IN  /\ ret' = <<ret[1], r.val>>
             /\ out' = Printed(r.msg)
    /\ pc' = "rt_done"
    /\ UNCHANGED <<file, entries, line, date, mood, saves>>

NextRT == RT_Save \/ RT_Load

SpecRT == InitRT /\ [][NextRT]_vars

(***************************************************************************)
(* Properties.                                                             *)
(***************************************************************************)
\* x is an entry record: a dict of exactly the fields date, mood and text,
\* each a string
IsEntryRecord(x) ==
    /\ IsDict(x)
    /\ {x.v[i][1] : i \in 1..Len(x.v)} = {K_DATE, K_MOOD, K_TEXT}
    /\ \A i \in 1..Len(x.v) : IsStr(x.v[i][2])

\* x is an entry with a mood of the fixed set and a non-empty text
IsValidEntry(x) ==
    /\ IsEntryRecord(x)
    /\ GetItem(x, K_MOOD).v \in ValidMoodSet
    /\ GetItem(x, K_TEXT).v # <<>>

\* the store does not hold a sequence of entry records
Malformed(f) ==
    LET r == Loads(f.data)
    IN  \/ ~r.ok
        \/ ~IsList(r.val)
        \/ \E i \in 1..Len(r.val.v) : ~IsEntryRecord(r.val.v[i])

\* every entry of the collection x and every entry of the store f is valid
EntriesValid(x, f) ==
    /\ \A i \in 1..Len(Iter(x)) : IsValidEntry(Iter(x)[i])
    /\ f.exists =>
          LET r == Loads(f.data)
          IN  r.ok => \A i \in 1..Len(Iter(r.val)) : IsValidEntry(Iter(r.val)[i])

\* the mood of the record e is one of the fixed set
HasFixedMood(e) == IsStr(GetItem(e, K_MOOD)) /\ GetItem(e, K_MOOD).v \in ValidMoodSet

\* the sum of a tally's counts
SumCounts(counts) == counts[HAPPY] + counts[NEUTRAL] + counts[SAD]

\* the positions of the entries of es whose mood is m
Matching(es, m) == {i \in 1..Len(es) : GetItem(es[i], K_MOOD) = PyStr(m)}

\* the k-th smallest member of the set of positions P
Kth(P, k) == CHOOSE i \in P : Cardinality({j \in P : j < i}) = k - 1

\* the typed line s holds nothing but white space
IsBlank(s) == \A i \in 1..Len(s) : s[i] \in Whitespace

\* the step of add_entry that appends: a non-empty text typed at its text
\* prompt, the collection being a list
AppendStep ==
    /\ pc = "add_text"
    /\ line'.kind = "line"
    /\ ~IsBlank(line'.s)
    /\ IsList(entries)

\* C1: on every valid collection C, empty or not, a save_entries(C) that
\* returns True followed by a load_entries() that reads the store returns a
\* collection equal to C: same length, same order, same field values.
C1_RoundTrip ==
    (pc = "rt_done" /\ ret[1] = PyBool(TRUE) /\ out.msg # MSG_READ_ERROR)
        => ret[2] = entries

\* C1 reached: a collection of MaxEntries entries, one of them holding a
\* quote, a backslash and a non-ASCII character, was saved and loaded back.
C1_Witness ==
    /\ pc = "rt_done"
    /\ ret[1] = PyBool(TRUE)
    /\ ret[2] = entries
    /\ Len(entries.v) = MaxEntries
    /\ GetItem(entries.v[1], K_TEXT).v = <<"a", QUOTE, BACKSLASH, EACUTE>>
    /\ GetItem(entries.v[1], K_MOOD) # GetItem(entries.v[2], K_MOOD)

\* C2: load_entries() on a store that does not exist or does not hold a
\* sequence of entry records returns the empty collection, and the program
\* does not end in an unhandled exception.
C2_FreshStart ==
    (pc # "start" /\ line = NoInput /\ (~file.exists \/ Malformed(file)))
        => (entries = EmptyList /\ pc # "crashed")

\* C3: an append whose text is empty after stripping returns the collection
\* unchanged, does not call save_entries, leaves the store unchanged and
\* prints that nothing was saved.
C3_AppendRejectsEmptyText ==
    [][(pc = "add_text" /\ line'.kind = "line" /\ IsBlank(line'.s))
          => /\ entries' = entries
             /\ ret' = <<entries>>
             /\ saves' = saves
             /\ file' = file
             /\ out'.msg = MSG_EMPTY_TEXT
             /\ pc' = "menu"]_vars

\* C3 reached: a text of blanks was typed while the collection held an entry
\* and the store held the collection.
C3_Witness ==
    /\ pc = "menu"
    /\ line = Typed(<<SPACE, SPACE>>)
    /\ out.msg = MSG_EMPTY_TEXT
    /\ entries # EmptyList
    /\ file = FileOf(Dump(entries))

\* C4 as stated: whatever collection the program holds, the counts of
\* mood_summary sum to the number of entries and every percentage lies in
\* 0..100.
C4_TallySumsToTotal ==
    out.report # <<>> =>
        /\ SumCounts(out.report[1].counts) = Len(Iter(entries))
        /\ \A m \in ValidMoodSet : out.report[1].percent[m] \in 0..100

\* C4 amended: each count of mood_summary is the number of entries carrying
\* that mood, so the counts sum to the number of entries whose mood is one of
\* the three: to the total when every mood is, and to less otherwise; every
\* percentage lies in 0..100.
C4_TallyCountsFixedMoods ==
    out.report # <<>> =>
        LET r == out.report[1]
            es == Iter(entries)
        IN  /\ r.total = Len(es)
            /\ \A m \in ValidMoodSet : r.counts[m] = Cardinality(Matching(es, m))
            /\ SumCounts(r.counts) = Cardinality({i \in 1..Len(es) : HasFixedMood(es[i])})
            /\ SumCounts(r.counts) <= r.total
            /\ (\A i \in 1..Len(es) : HasFixedMood(es[i]))
                  => SumCounts(r.counts) = r.total
            /\ \A m \in ValidMoodSet : r.percent[m] \in 0..100

\* C4 reached: a summary of appended entries whose counts sum to the total.
C4_Witness ==
    /\ out.report # <<>>
    /\ saves = 2
    /\ out.report[1].total = 2
    /\ out.report[1].counts[SAD] = 2
    /\ out.report[1].percent[SAD] = 100

\* C5: the top mood of mood_summary has the maximum count, and among the
\* moods that have it is the first in the order happy, neutral, sad.
C5_TopMoodFirstMaximum ==
    out.report # <<>> =>
        LET r == out.report[1]
            best == {i \in 1..Len(VALID_MOODS) :
                        \A j \in 1..Len(VALID_MOODS) :
                            r.counts[VALID_MOODS[i]] >= r.counts[VALID_MOODS[j]]}
        IN  r.top = VALID_MOODS[Kth(best, 1)]

\* C5 reached: counts happy 2, neutral 2, sad 0 reported with top mood happy.
C5_Witness ==
    /\ out.report # <<>>
    /\ out.report[1].counts = [m \in ValidMoodSet |-> IF m = SAD THEN 0 ELSE 2]
    /\ out.report[1].top = HAPPY

\* C6: when view_by_mood has read a mood m of the fixed set, the entries it
\* lists are exactly the entries whose mood is m, each as often as it occurs
\* and in the order of the collection, none when none matches; the
\* collection is left unchanged.
C6_MoodFilterPreservesOrder ==
    [][pc = "view_mood" =>
          /\ entries' = entries
          /\ pc' = "menu" =>
               LET m == Lower(Strip(line'.s))
                   es == Iter(entries)
                   P == Matching(es, m)
               IN  /\ m \in ValidMoodSet
                   /\ Len(out'.shown) = Cardinality(P)
                   /\ \A k \in 1..Len(out'.shown) : out'.shown[k] = es[Kth(P, k)]]_vars

\* C6 reached: the moods happy, sad, happy, neutral, happy filtered by happy
\* list the first, third and fifth entries.
C6_Witness ==
    /\ pc = "menu"
    /\ entries = FiveEntries
    /\ line = Typed(HAPPY)
    /\ out.shown = <<entries.v[1], entries.v[3], entries.v[5]>>

\* C7: after end of input or an interrupt at a prompt the program has quit;
\* it has not ended in an unhandled exception.
C7_InterruptQuits == Raises(line) => pc = "done"

\* C8 as stated: from the startup load on, every entry in memory and in the
\* store has a mood of the fixed set and a non-empty text.
C8_StoredEntryInvariant == pc # "start" => EntriesValid(entries, file)

\* C8 amended: no step makes an entry invalid: if every entry in memory and
\* in the store has a mood of the fixed set and a non-empty text before a
\* step, so it is after it.  The entries add_entry creates are valid; the
\* entries load_entries reads are taken as they are.
C8_StepsKeepEntriesValid ==
    [][\/ (entries' = entries /\ file' = file)
       \/ (EntriesValid(entries, file) => EntriesValid(entries', file'))]_vars

\* C8 reached: two entries appended and saved, all valid.
C8_Witness ==
    /\ EntriesValid(entries, file)
    /\ out.msg = MSG_SAVED
    /\ saves = 2
    /\ file = FileOf(Dump(entries))

\* C9: the store changes, and save_entries is called, only in the step of
\* add_entry that has read a non-empty text.
C9_StoreChangesOnlyOnAppend ==
    [][(file' # file \/ saves' # saves)
          => (pc = "add_text" /\ line'.kind = "line" /\ ~IsBlank(line'.s))]_vars

\* C9 reached: a load has found the store corrupted and left it as it was.
C9_Witness ==
    /\ pc = "menu"
    /\ out.msg = MSG_CORRUPT
    /\ entries = EmptyList
    /\ file.exists
    /\ ~Loads(file.data).ok

\* C10 as stated: the append returns the collection with the new entry at
\* its end together with the outcome of the save.
C10_AppendReturnsOutcome ==
    [][AppendStep =>
          /\ entries' = PyList(Append(entries.v, Entry(date, mood, Strip(line'.s))))
          /\ ret' = <<entries', PyBool(out'.msg = MSG_SAVED)>>]_vars

\* C10 amended: the append returns the collection with the new entry at its
\* end, the earlier entries unchanged, and nothing else; it calls
\* save_entries once and prints its outcome: the save error, or "Saved!",
\* and then the store holds exactly the returned collection.
C10_AppendReturnsCollection ==
    [][AppendStep =>
          /\ entries' = PyList(Append(entries.v, Entry(date, mood, Strip(line'.s))))
          /\ ret' = <<entries'>>
          /\ saves' = saves + 1
          /\ out'.msg \in {MSG_SAVED, MSG_SAVE_ERROR}
          /\ out'.msg = MSG_SAVED =>
                (file'.exists /\ Loads(file'.data) = Ok(entries', Len(file'.data) + 1))]_vars

\* C10 reached: a second entry appended while the save failed, the store
\* still holding the first entry alone.
C10_Witness ==
    /\ pc = "menu"
    /\ out.msg = MSG_SAVE_ERROR
    /\ saves = 2
    /\ Len(entries.v) = 2
    /\ file = FileOf(Dump(PyList(<<entries.v[1]>>)))

====
